---- MODULE Spec2Model ----
(***************************************************************************)
(* Model of the Dashboard component of src/src/App.tsx (farmaci-giannina): *)
(* the medication catalog, the two-location stock ledger and the intake    *)
(* tracker, together with the rows of the backend tables meds, stocks and  *)
(* intake_logs that the component reads and writes, the planner's week     *)
(* calendar and the stock status badges.                                   *)
(*                                                                         *)
(* Every async function of the component is a process.  A process takes    *)
(* one step per backend call (the moment the backend executes the request, *)
(* which either succeeds or returns an error) and one step for every       *)
(* continuation that writes React state.  A continuation that only issues  *)
(* the next request is folded into the step before it.                     *)
(***************************************************************************)
EXTENDS Integers, FiniteSets, Sequences, TLC

\* ------------------------------------------------------------------ bounds
\* Largest stock quantity a row may hold; a step that would exceed it is cut.
MaxQty == 2
\* Number of backend calls of one behaviour that may return an error.
MaxErrs == 1

\* ------------------------------------------------------------- the domain
TIMES == {"Mattina", "Mezzogiorno", "Sera"}
Locations == {"Box", "Dispensa"}
\* The ids the backend hands out for meds rows, each once.
MedIds == {1, 2}
\* Calendar days as day numbers; the planner shows Today and one more day of
\* the week when "Solo oggi" is off, Today alone when it is on.
Today == 0
Days == {Today, Today + 1}
Keys == Days \X TIMES \X MedIds

Max(a, b) == IF a >= b THEN a ELSE b

\* An input of a numeric field that did not parse (Number("abc")).
NaN == -1000
IsNaN(q) == q = NaN
\* JavaScript truthiness of a number: 0 and NaN are falsy.
Falsy(q) == q = 0 \/ IsNaN(q)
\* x || 0
OrZero(q) == IF Falsy(q) THEN 0 ELSE q

EmptyFn == [x \in {} |-> 0]
Drop(f, S) == [x \in (DOMAIN f) \ S |-> f[x]]
Put(f, k, v) == [x \in (DOMAIN f) \cup {k} |-> IF x = k THEN v ELSE f[x]]

\* ------------------------------------------------------------ the calendar
\* Instants are hours, calendar dates are day numbers; day 0 is a Monday and
\* starts at hour 0 UTC.  A clock c is the system clock and its time zone:
\* c.now the instant, c.std the UTC offset in hours, and from the instant
\* c.dstAt on the offset is c.std + c.shift (shift 0: no transition).
TzOffset(c, t) == IF t >= c.dstAt THEN c.std + c.shift ELSE c.std
\* The local time value of an instant, and the instant of a local time value;
\* a local time skipped or repeated by the transition is read with the
\* offset before the transition.
LocalTime(c, t) == t + TzOffset(c, t)
UTC(c, wall) ==
  LET t1 == wall - c.std
      t2 == wall - (c.std + c.shift)
  IN IF t1 < c.dstAt THEN t1 ELSE IF t2 >= c.dstAt THEN t2 ELSE t1
\* d.toISOString().slice(0, 10): the UTC date of the instant.
ISODate(t) == t \div 24
\* d.getDay(): the local day of the week, 0 for Sunday.
getDay(c, t) == ((LocalTime(c, t) \div 24) + 1) % 7
\* d.setDate(d.getDate() + n): the same local time of day, n days later.
setDate(c, t, n) == UTC(c, LocalTime(c, t) + 24 * n)

todayISO(c) == ISODate(c.now)
startOfWeekISO(c) ==
  LET day == (getDay(c, c.now) + 6) % 7
  IN ISODate(setDate(c, c.now, 0 - day))
\* new Date(iso) is the start of the date iso in UTC.
addDaysISO(c, iso, n) == ISODate(setDate(c, 24 * iso, n))

\* Monday 00:00 UTC on a clock set to UTC: todayISO is Today.
Clock0 == [now |-> 24 * Today, std |-> 0, dstAt |-> 0, shift |-> 0]

VARIABLES
  weekStart,  \* React state weekStart, a date
  clock,      \* the system clock and time zone of the browser
  badges,     \* the status badge rendered for each medication: id -> [text, tone]
  editing,    \* React state editing: the id of the medication the editor popup
              \* was opened on, 0 for null; its other fields are what the user
              \* has typed, and are drawn when "Salva" is clicked
  deleting,   \* React state deleting: the id of the Med object the delete popup
              \* was opened on, 0 for null
  dbMeds,     \* table meds: id -> row, the domain is the set of existing rows
  dbStocks,   \* table stocks: <<med_id, location>> -> qty
  dbLogs,     \* table intake_logs: key -> number of rows with that key
  dbNextId,   \* next id the backend generates for a meds row
  meds,       \* React state meds: id -> Med object as loaded
  stocks,     \* React state stocks: id -> [box, dispensa]
  intakes,    \* React state intakes: the keys mapped to true
  onlyToday,  \* React state onlyToday
  procs,      \* the async functions in flight, by process id
  pre,        \* observation: the state when the current operation was called
  prev,       \* observation: summary of the operation completed before it
  nerr        \* observation: number of backend calls that returned an error

pvars == <<dbMeds, dbStocks, dbLogs, dbNextId, meds, stocks, intakes, onlyToday, procs>>
cvars == <<weekStart, clock, badges>>
mvars == <<editing, deleting>>
vars == <<weekStart, clock, badges, editing, deleting, dbMeds, dbStocks, dbLogs, dbNextId, meds, stocks, intakes, onlyToday, procs, pre, prev, nerr>>

\* ---------------------------------------------------------------- processes
\* User-started operations run in the slots <<"u", "-", i>>; the toggleTaken
\* calls that the markAllToday call of slot i starts, the elements of its
\* array jobs, run in <<"j", slot, med, i>>.
Users == {<<"u", "-", i>> : i \in {1, 2}}
Jobs == {<<"j", t, m, i>> : t \in TIMES, m \in MedIds, i \in {1, 2}}
PIDs == Users \cup Jobs
U1 == <<"u", "-", 1>>

\* The initial value of newMed: per_dose 1, threshold 10, nothing else filled in.
Threshold0 == 10
NoInput == [name |-> "", times |-> {}, per_dose |-> 1, threshold |-> Threshold0,
            initBox |-> 0, initDisp |-> 0]

Idle == [op |-> "idle", pc |-> "idle", med |-> 0, day |-> Today, time |-> "-",
         next |-> FALSE, per_dose |-> 0, qty |-> 0,
         boxFound |-> FALSE, box |-> 0, panFound |-> FALSE, pan |-> 0,
         resOk |-> FALSE, resMeds |-> EmptyFn, resStocks |-> EmptyFn,
         resKeys |-> {}, range |-> {}, inp |-> NoInput,
         errs |-> {}, calls |-> {}, alert |-> FALSE, njobs |-> 0]

Free(p) == procs[p].pc \in {"idle", "done"}
Quiet == \A p \in PIDs : Free(p)

\* The process returns.  What it was called with and how its backend calls
\* went stays in the slot until the slot is reused; its locals are gone.
Returned(rec) ==
  [Idle EXCEPT !.op = rec.op, !.pc = "done", !.med = rec.med, !.day = rec.day,
               !.time = rec.time, !.next = rec.next, !.per_dose = rec.per_dose,
               !.qty = rec.qty, !.inp = rec.inp, !.errs = rec.errs,
               !.calls = rec.calls, !.alert = rec.alert, !.njobs = rec.njobs]
Return(p, rec) == procs' = [procs EXCEPT ![p] = Returned(rec)]

\* One more backend call of process record rec: its name, and whether it
\* returned an error.
Called(rec, call, ok) ==
  [rec EXCEPT !.calls = @ \cup {call},
              !.errs = IF ok THEN @ ELSE @ \cup {call}]

Min(a, b) == IF a <= b THEN a ELSE b

\* ------------------------------------------------------------ intake_logs
\* upsert(row, {onConflict: "family_id,day,time_slot,med_id"}): the row of the
\* key is updated when there is one, inserted when there is none.  family_id
\* is profile.family_id in every call of the component, so it is left out of
\* the key.
\* Variant: the upsert without its conflict target, a plain insert.
UpsertAlwaysInserts(logs, k) == [logs EXCEPT ![k] = @ + 1]
Upsert(logs, k) == IF logs[k] > 0 THEN logs ELSE [logs EXCEPT ![k] = 1]
\* delete().eq(family_id).eq(day).eq(time_slot).eq(med_id)
\* Variant: the delete without its time_slot filter.
DeleteKeyAnySlot(logs, k) ==
  [x \in DOMAIN logs |-> IF x[1] = k[1] /\ x[3] = k[3] THEN 0 ELSE logs[x]]
DeleteKey(logs, k) == [logs EXCEPT ![k] = 0]

\* ------------------------------------------------------------ toggleTaken
KeyOf(rec) == <<rec.day, rec.time, rec.med>>

\* const next = typeof force === "boolean" ? force : !intakes[k]
NextOf(force, k) == IF force = "none" THEN k \notin intakes ELSE force = "true"

\* The process record of a toggleTaken call on the Med object meds[m].
ToggleRec(day, time, m, next) ==
  [Idle EXCEPT !.op = "toggle", !.pc = "log", !.day = day, !.time = time,
               !.med = m, !.per_dose = meds[m].per_dose, !.next = next]

\* setIntakes((s) => ({ ...s, [k]: next }))
SetIntake(s, k, next) == IF next THEN s \cup {k} ELSE s \ {k}

\* Variant: the new quantity without Math.max(0, ...).
ToggleNewQtyUnclamped(rec) ==
  OrZero(rec.box) + (IF rec.next THEN 0 - rec.per_dose ELSE rec.per_dose)

\* Variant: the quantity decremented whatever the new state is.
ToggleNewQtyAlwaysDown(rec) == Max(0, OrZero(rec.box) - rec.per_dose)
\* Math.max(0, (box.qty || 0) + (next ? -m.per_dose : m.per_dose))
ToggleNewQty(rec) ==
  Max(0, OrZero(rec.box) + (IF rec.next THEN 0 - rec.per_dose ELSE rec.per_dose))

\* The call up to its first await: the optimistic local update, then the
\* log request is issued.
toggleTaken(self, day, time, m, force) ==
  /\ Free(self)
  /\ m \in DOMAIN meds
  /\ time \in meds[m].times
  /\ day \in (IF onlyToday THEN {Today} ELSE Days)
  /\ LET k == <<day, time, m>>
         next == NextOf(force, k)
     IN /\ intakes' = SetIntake(intakes, k, next)
        /\ procs' = [procs EXCEPT ![self] = ToggleRec(day, time, m, next)]
  /\ UNCHANGED <<dbMeds, dbStocks, dbLogs, dbNextId, meds, stocks, onlyToday>>

\* The backend executes the upsert or the delete; an error is only logged to
\* the console and the function goes on to the stock.
toggleLog(self, ok) ==
  /\ procs[self].op = "toggle" /\ procs[self].pc = "log"
  /\ LET rec == procs[self]
     IN /\ dbLogs' = IF ~ok THEN dbLogs
                     ELSE IF rec.next THEN Upsert(dbLogs, KeyOf(rec))
                     ELSE DeleteKey(dbLogs, KeyOf(rec))
        /\ procs' = [procs EXCEPT ![self] = [Called(rec, "log", ok) EXCEPT !.pc = "select"]]
  /\ UNCHANGED <<dbMeds, dbStocks, dbNextId, meds, stocks, intakes, onlyToday>>

\* select("id,qty").eq(med_id).eq(location, "Box").single(): data is null on
\* an error and when there is no such row; then nothing more is done.
toggleSelect(self, ok) ==
  /\ procs[self].op = "toggle" /\ procs[self].pc = "select"
  /\ LET rec == Called(procs[self], "select", ok)
         found == ok /\ <<rec.med, "Box">> \in DOMAIN dbStocks
     IN IF found
        THEN procs' = [procs EXCEPT ![self] =
                 [rec EXCEPT !.pc = "update", !.boxFound = TRUE,
                             !.box = dbStocks[<<rec.med, "Box">>]]]
        ELSE Return(self, rec)
  /\ UNCHANGED <<dbMeds, dbStocks, dbLogs, dbNextId, meds, stocks, intakes, onlyToday>>

\* update({qty: newQty}).eq("id", box.id): the result is not looked at.
toggleUpdate(self, ok) ==
  /\ procs[self].op = "toggle" /\ procs[self].pc = "update"
  /\ LET rec == procs[self]
         row == <<rec.med, "Box">>
     IN /\ ToggleNewQty(rec) <= MaxQty
        /\ dbStocks' = IF ok /\ row \in DOMAIN dbStocks
                       THEN [dbStocks EXCEPT ![row] = ToggleNewQty(rec)]
                       ELSE dbStocks
        /\ procs' = [procs EXCEPT ![self] = [Called(rec, "update", ok) EXCEPT !.pc = "setStocks"]]
  /\ UNCHANGED <<dbMeds, dbLogs, dbNextId, meds, stocks, intakes, onlyToday>>

\* st[m.id] || { box: 0, dispensa: 0 }
StockEntry(st, m) == IF m \in DOMAIN st THEN st[m] ELSE [box |-> 0, dispensa |-> 0]

\* setStocks((st) => ({ ...st, [m.id]: { ...entry, box: newQty } }))
toggleSetStocks(self) ==
  /\ procs[self].op = "toggle" /\ procs[self].pc = "setStocks"
  /\ LET rec == procs[self]
     IN /\ stocks' = Put(stocks, rec.med, [StockEntry(stocks, rec.med) EXCEPT !.box = ToggleNewQty(rec)])
        /\ Return(self, rec)
  /\ UNCHANGED <<dbMeds, dbStocks, dbLogs, dbNextId, meds, intakes, onlyToday>>

\* --------------------------------------------------------------- loadWeek
\* from = onlyToday ? todayISO() : weekStart, to likewise: the days asked for
\* by gte("day", from).lte("day", to).
LoadRange(ws, only) ==
  IF only THEN {todayISO(clock)} ELSE ws..addDaysISO(clock, ws, 6)
WeekRange == LoadRange(weekStart, onlyToday)

\* select(...).eq(family_id).gte(day, from).lte(day, to); data is null on an
\* error.  map[key] = !!r.taken, and every row is written with taken = true.
loadWeekSelect(self, ok) ==
  /\ procs[self].pc = "lw_select"
  /\ LET rec == Called(procs[self], "lw_select", ok)
         rows == {k \in Keys : k[1] \in rec.range /\ dbLogs[k] > 0}
     IN procs' = [procs EXCEPT ![self] =
            [rec EXCEPT !.pc = "lw_set", !.resKeys = IF ok THEN rows ELSE {}]]
  /\ UNCHANGED <<dbMeds, dbStocks, dbLogs, dbNextId, meds, stocks, intakes, onlyToday>>

\* setIntakes(map)
loadWeekSet(self) ==
  /\ procs[self].pc = "lw_set"
  /\ intakes' = procs[self].resKeys
  /\ Return(self, procs[self])
  /\ UNCHANGED <<dbMeds, dbStocks, dbLogs, dbNextId, meds, stocks, onlyToday>>

\* The checkbox "Solo oggi": setOnlyToday, and the effect on [onlyToday]
\* runs loadWeek with the new value.
setOnlyToday(self, b) ==
  /\ Free(self)
  /\ b # onlyToday
  /\ onlyToday' = b
  /\ procs' = [procs EXCEPT ![self] =
        [Idle EXCEPT !.op = "loadWeek", !.pc = "lw_select",
                     !.range = LoadRange(weekStart, b)]]
  /\ UNCHANGED <<dbMeds, dbStocks, dbLogs, dbNextId, meds, stocks, intakes>>

\* ------------------------------------------------------- week navigation
\* allDays: addDaysISO(weekStart, i) for i = 0..6; days: allDays, or with
\* onlyToday those of them equal to todayISO().
allDays == [i \in 0..6 |-> addDaysISO(clock, weekStart, i)]
days ==
  IF onlyToday
  THEN {allDays[i] : i \in {j \in 0..6 : allDays[j] = todayISO(clock)}}
  ELSE {allDays[i] : i \in 0..6}

\* setWeekStart(ws): a new value re-renders, and the effect on [weekStart]
\* runs loadWeek for it; the same value does nothing.
setWeekStart(self, ws) ==
  /\ Free(self)
  /\ weekStart' = ws
  /\ procs' = [procs EXCEPT ![self] =
        IF ws = weekStart THEN procs[self]
        ELSE [Idle EXCEPT !.op = "loadWeek", !.pc = "lw_select",
                          !.range = LoadRange(ws, onlyToday)]]
  /\ UNCHANGED <<dbMeds, dbStocks, dbLogs, dbNextId, meds, stocks, intakes, onlyToday>>

\* The buttons "<-", "->" and "Oggi", shown while onlyToday is off.
weekPrev(self) == ~onlyToday /\ setWeekStart(self, addDaysISO(clock, weekStart, 0 - 7))
weekNext(self) == ~onlyToday /\ setWeekStart(self, addDaysISO(clock, weekStart, 7))
weekOggi(self) == ~onlyToday /\ setWeekStart(self, startOfWeekISO(clock))
\* ------------------------------------------------------- stock indicators
\* Variant: the need of one day, without the factor 7.
dailyNeed(m) == meds[m].per_dose * Cardinality(meds[m].times)
\* m.per_dose * (m.times?.length || 0) * 7
weeklyNeed(m) == meds[m].per_dose * Cardinality(meds[m].times) * 7
\* (stocks[m.id]?.box || 0) + (stocks[m.id]?.dispensa || 0)
totalStock(m) ==
  IF m \in DOMAIN stocks THEN OrZero(stocks[m].box) + OrZero(stocks[m].dispensa) ELSE 0
statusText(m) ==
  IF totalStock(m) < meds[m].threshold THEN "Sotto soglia"
  ELSE IF totalStock(m) < weeklyNeed(m) THEN "Copertura < 1 settimana"
  ELSE "OK"

\* s.startsWith("Copertura"), on the texts statusText returns.
StartsWithCopertura(s) == s \in {"Copertura < 1 settimana"}
statusTone(s) ==
  IF s = "OK" THEN "green" ELSE IF StartsWithCopertura(s) THEN "amber" ELSE "red"

\* The stocks view renders a badge for every medication of the list:
\* tone = statusTone(statusText(m)), <Badge tone={tone}>{statusText(m)}</Badge>.
renderBadges ==
  /\ badges' = [m \in DOMAIN meds |-> [text |-> statusText(m), tone |-> statusTone(statusText(m))]]
  /\ UNCHANGED <<weekStart, clock, dbMeds, dbStocks, dbLogs, dbNextId, meds, stocks, intakes,
                 onlyToday, procs>>
\* ----------------------------------------------------------- markAllToday
\* The (slot, med) pairs planned for today, from the Med objects in state.
plannedDosesForToday == {<<t, m>> \in TIMES \X (DOMAIN meds) : t \in meds[m].times}

\* Variant: every planned pair, whatever its tracked state.
JobsOfAll(checked) == plannedDosesForToday

\* The pairs whose tracked state differs from checked: cur !== checked.
JobsOf(checked) == {d \in plannedDosesForToday : (<<Today, d[1], d[2]>> \in intakes) # checked}

\* The array jobs of the markAllToday call in slot self.
JobsFor(self) == {j \in Jobs : j[4] = self[3]}
JobPid(self, d) == <<"j", d[1], d[2], self[3]>>

\* markAllToday up to Promise.all: every toggleTaken call runs to its first
\* await, one after the other, each setting its key in intakes.  With no
\* job, Promise.all is settled at once and loadWeek issues its request.  The
\* buttons exist only while onlyToday is on, and are never disabled: calls
\* that are in flight, those of another markAllToday included, go on.
markAllToday(self, checked) ==
  /\ Free(self)
  /\ onlyToday
  /\ LET todo == JobsOf(checked)
     IN /\ intakes' = IF checked THEN intakes \cup {<<Today, d[1], d[2]>> : d \in todo}
                      ELSE intakes \ {<<Today, d[1], d[2]>> : d \in todo}
        /\ procs' = [p \in PIDs |->
              IF p = self
              THEN [Idle EXCEPT !.op = "markAll",
                                !.pc = IF todo = {} THEN "lw_select" ELSE "await",
                                !.next = checked,
                                !.njobs = Cardinality(todo), !.range = WeekRange]
              ELSE IF \E d \in todo : p = JobPid(self, d)
              THEN ToggleRec(Today, p[2], p[3], checked)
              ELSE IF p \in JobsFor(self) THEN Idle
              ELSE procs[p]]
  /\ UNCHANGED <<dbMeds, dbStocks, dbLogs, dbNextId, meds, stocks, onlyToday>>

\* Variant: loadWeek() called without await Promise.all(jobs).
markAllNoAwait(self) ==
  /\ procs[self].op = "markAll" /\ procs[self].pc = "await"
  /\ procs' = [procs EXCEPT ![self].pc = "lw_select"]
  /\ UNCHANGED <<dbMeds, dbStocks, dbLogs, dbNextId, meds, stocks, intakes, onlyToday>>
\* await Promise.all(jobs), then loadWeek() is called.
markAllAwait(self) ==
  /\ procs[self].op = "markAll" /\ procs[self].pc = "await"
  /\ \A j \in JobsFor(self) : Free(j)
  /\ procs' = [procs EXCEPT ![self].pc = "lw_select"]
  /\ UNCHANGED <<dbMeds, dbStocks, dbLogs, dbNextId, meds, stocks, intakes, onlyToday>>

\* ------------------------------------------------------- the stock ledger
StockRec(op, pc, m, qty) ==
  [Idle EXCEPT !.op = op, !.pc = pc, !.med = m, !.qty = qty]

\* A call that returns before its first request.
NoOp(self, op, m, qty) ==
  /\ Return(self, StockRec(op, "done", m, qty))
  /\ UNCHANGED <<dbMeds, dbStocks, dbLogs, dbNextId, meds, stocks, intakes, onlyToday>>

Start(self, op, pc, m, qty) ==
  /\ procs' = [procs EXCEPT ![self] = StockRec(op, pc, m, qty)]
  /\ UNCHANGED <<dbMeds, dbStocks, dbLogs, dbNextId, meds, stocks, intakes, onlyToday>>

\* if (!qty || qty <= 0) return;
RejectsIncrement(qty) == Falsy(qty) \/ qty <= 0
\* if (qty < 0 || Number.isNaN(qty)) return;
RejectsAbsolute(qty) == qty < 0 \/ IsNaN(qty)

moveFromPantry(self, m, qty) ==
  /\ Free(self) /\ m \in DOMAIN meds
  /\ IF RejectsIncrement(qty) THEN NoOp(self, "move", m, qty)
     ELSE Start(self, "move", "selBox", m, qty)

addPantry(self, m, qty) ==
  /\ Free(self) /\ m \in DOMAIN meds
  /\ IF RejectsIncrement(qty) THEN NoOp(self, "addPantry", m, qty)
     ELSE Start(self, "addPantry", "selPan", m, qty)

setBoxQty(self, m, qty) ==
  /\ Free(self) /\ m \in DOMAIN meds
  /\ IF RejectsAbsolute(qty) THEN NoOp(self, "setBox", m, qty)
     ELSE Start(self, "setBox", "selBox", m, qty)

setPantryQty(self, m, qty) ==
  /\ Free(self) /\ m \in DOMAIN meds
  /\ IF RejectsAbsolute(qty) THEN NoOp(self, "setPantry", m, qty)
     ELSE Start(self, "setPantry", "selPan", m, qty)

\* Variant: the transfer capped by what the reserve holds.
NewBoxCapped(rec) ==
  IF rec.op = "move" THEN OrZero(rec.box) + Min(rec.qty, OrZero(rec.pan)) ELSE rec.qty

\* The quantities the function writes, from what it read.
\* moveFromPantry: (box.qty || 0) + qty; setBoxQty: qty
NewBox(rec) == IF rec.op = "move" THEN OrZero(rec.box) + rec.qty ELSE rec.qty
\* Variant: the transfer that does not take the quantity out of the reserve.
NewPanKept(rec) ==
  IF rec.op = "move" THEN OrZero(rec.pan)
  ELSE IF rec.op = "addPantry" THEN OrZero(rec.pan) + rec.qty
  ELSE rec.qty
\* moveFromPantry: Math.max(0, (pan.qty || 0) - qty); addPantry: (pan.qty || 0) + qty;
\* setPantryQty: qty
NewPan(rec) ==
  IF rec.op = "move" THEN Max(0, OrZero(rec.pan) - rec.qty)
  ELSE IF rec.op = "addPantry" THEN OrZero(rec.pan) + rec.qty
  ELSE rec.qty

\* select(...).eq(med_id).eq(location, "Box").single() of moveFromPantry and
\* setBoxQty.  moveFromPantry reads the Dispensa row next, whatever came back.
stockSelectBox(self, ok) ==
  /\ procs[self].pc = "selBox"
  /\ LET rec == Called(procs[self], "selBox", ok)
         found == ok /\ <<rec.med, "Box">> \in DOMAIN dbStocks
         got == [rec EXCEPT !.boxFound = found,
                            !.box = IF found THEN dbStocks[<<rec.med, "Box">>] ELSE 0]
     IN IF rec.op = "move" THEN procs' = [procs EXCEPT ![self] = [got EXCEPT !.pc = "selPan"]]
        ELSE IF found THEN procs' = [procs EXCEPT ![self] = [got EXCEPT !.pc = "updBox"]]
        ELSE Return(self, got)
  /\ UNCHANGED <<dbMeds, dbStocks, dbLogs, dbNextId, meds, stocks, intakes, onlyToday>>

\* select(...).eq(med_id).eq(location, "Dispensa").single(); if (box && pan)
\* in moveFromPantry, if (pan) in addPantry and setPantryQty.
stockSelectPan(self, ok) ==
  /\ procs[self].pc = "selPan"
  /\ LET rec == Called(procs[self], "selPan", ok)
         found == ok /\ <<rec.med, "Dispensa">> \in DOMAIN dbStocks
         got == [rec EXCEPT !.panFound = found,
                            !.pan = IF found THEN dbStocks[<<rec.med, "Dispensa">>] ELSE 0]
     IN IF rec.op = "move" /\ found /\ rec.boxFound
        THEN procs' = [procs EXCEPT ![self] = [got EXCEPT !.pc = "updBox"]]
        ELSE IF rec.op # "move" /\ found
        THEN procs' = [procs EXCEPT ![self] = [got EXCEPT !.pc = "updPan"]]
        ELSE Return(self, got)
  /\ UNCHANGED <<dbMeds, dbStocks, dbLogs, dbNextId, meds, stocks, intakes, onlyToday>>

\* update({qty}).eq("id", row.id): no row is changed when the row is gone.
UpdateRow(st, row, q, ok) ==
  IF ok /\ row \in DOMAIN st THEN [st EXCEPT ![row] = q] ELSE st

stockUpdateBox(self, ok) ==
  /\ procs[self].pc = "updBox"
  /\ LET rec == procs[self]
     IN /\ NewBox(rec) <= MaxQty
        /\ dbStocks' = UpdateRow(dbStocks, <<rec.med, "Box">>, NewBox(rec), ok)
        /\ procs' = [procs EXCEPT ![self] =
              [Called(rec, "updBox", ok) EXCEPT !.pc = IF rec.op = "move" THEN "updPan" ELSE "setStocks"]]
  /\ UNCHANGED <<dbMeds, dbLogs, dbNextId, meds, stocks, intakes, onlyToday>>

stockUpdatePan(self, ok) ==
  /\ procs[self].pc = "updPan"
  /\ LET rec == procs[self]
     IN /\ NewPan(rec) <= MaxQty
        /\ dbStocks' = UpdateRow(dbStocks, <<rec.med, "Dispensa">>, NewPan(rec), ok)
        /\ procs' = [procs EXCEPT ![self] = [Called(rec, "updPan", ok) EXCEPT !.pc = "setStocks"]]
  /\ UNCHANGED <<dbMeds, dbLogs, dbNextId, meds, stocks, intakes, onlyToday>>

\* The setStocks call that ends each of the four functions.
NewEntry(st, rec) ==
  IF rec.op = "move" THEN [box |-> NewBox(rec), dispensa |-> NewPan(rec)]
  ELSE IF rec.op = "setBox" THEN [StockEntry(st, rec.med) EXCEPT !.box = NewBox(rec)]
  ELSE [StockEntry(st, rec.med) EXCEPT !.dispensa = NewPan(rec)]

stockSetStocks(self) ==
  /\ procs[self].op \in {"move", "addPantry", "setBox", "setPantry"}
  /\ procs[self].pc = "setStocks"
  /\ stocks' = Put(stocks, procs[self].med, NewEntry(stocks, procs[self]))
  /\ Return(self, procs[self])
  /\ UNCHANGED <<dbMeds, dbStocks, dbLogs, dbNextId, meds, intakes, onlyToday>>

\* --------------------------------------------------------------- loadMeds
\* select(...).eq(family_id).eq("archived", false).order("name"); the order
\* of the list is presentation only and the list is kept as a map by id.
\* Variant: the select without .eq("archived", false).
ActiveMedsUnfiltered(tbl) == tbl
ActiveMeds(tbl) == [m \in {x \in DOMAIN tbl : ~tbl[x].archived} |-> tbl[m]]

loadMedsSelect(self, ok) ==
  /\ procs[self].pc = "lm_meds"
  /\ procs' = [procs EXCEPT ![self] =
        [Called(procs[self], "lm_meds", ok) EXCEPT
            !.pc = "lm_setMeds", !.resOk = ok,
            !.resMeds = IF ok THEN ActiveMeds(dbMeds) ELSE EmptyFn]]
  /\ UNCHANGED <<dbMeds, dbStocks, dbLogs, dbNextId, meds, stocks, intakes, onlyToday>>

\* setMeds(medsNow || []); with no medication, setStocks({}) and return.
loadMedsSetMeds(self) ==
  /\ procs[self].pc = "lm_setMeds"
  /\ meds' = procs[self].resMeds
  /\ IF DOMAIN procs[self].resMeds # {}
     THEN /\ procs' = [procs EXCEPT ![self].pc = "lm_stocks"]
          /\ UNCHANGED stocks
     ELSE /\ stocks' = EmptyFn
          /\ Return(self, procs[self])
  /\ UNCHANGED <<dbMeds, dbStocks, dbLogs, dbNextId, intakes, onlyToday>>

\* The map built from the rows of select("med_id,location,qty").in(med_id, ids):
\* an entry for every medication with a row, a missing location reading 0.
StocksMapOf(st, ids) ==
  [m \in {x \in ids : \E l \in Locations : <<x, l>> \in DOMAIN st} |->
     [box |-> IF <<m, "Box">> \in DOMAIN st THEN OrZero(st[<<m, "Box">>]) ELSE 0,
      dispensa |-> IF <<m, "Dispensa">> \in DOMAIN st THEN OrZero(st[<<m, "Dispensa">>]) ELSE 0]]

loadMedsStocks(self, ok) ==
  /\ procs[self].pc = "lm_stocks"
  /\ procs' = [procs EXCEPT ![self] =
        [Called(procs[self], "lm_stocks", ok) EXCEPT
            !.pc = "lm_setStocks",
            !.resStocks = IF ok THEN StocksMapOf(dbStocks, DOMAIN procs[self].resMeds)
                          ELSE EmptyFn]]
  /\ UNCHANGED <<dbMeds, dbStocks, dbLogs, dbNextId, meds, stocks, intakes, onlyToday>>

loadMedsSetStocks(self) ==
  /\ procs[self].pc = "lm_setStocks"
  /\ stocks' = procs[self].resStocks
  /\ Return(self, procs[self])
  /\ UNCHANGED <<dbMeds, dbStocks, dbLogs, dbNextId, meds, intakes, onlyToday>>

\* ----------------------------------------------------------------- addMed
\* if (!newMed.name || newMed.times.length === 0) { alert(...); return; }
\* Variant: the validation without the check of the slot set.
RejectsNewMedNameOnly(inp) == inp.name = ""
RejectsNewMed(inp) == inp.name = "" \/ inp.times = {}

addMed(self, inp) ==
  /\ Free(self)
  /\ procs' = [procs EXCEPT ![self] =
        IF RejectsNewMed(inp)
        THEN [Idle EXCEPT !.op = "addMed", !.pc = "done", !.inp = inp, !.alert = TRUE]
        ELSE [Idle EXCEPT !.op = "addMed", !.pc = "insMed", !.inp = inp]]
  /\ UNCHANGED <<dbMeds, dbStocks, dbLogs, dbNextId, meds, stocks, intakes, onlyToday>>

\* The row insert({...newMed fields, archived: false}) writes.
MedRow(inp) ==
  [name |-> inp.name, per_dose |-> inp.per_dose, times |-> inp.times,
   threshold |-> inp.threshold, archived |-> FALSE]

\* insert(...).select("id").single(); if (error) { alert(error.message); return; }
addMedInsert(self, ok) ==
  /\ procs[self].op = "addMed" /\ procs[self].pc = "insMed"
  /\ LET rec == Called(procs[self], "insMed", ok)
     IN IF ok
        THEN /\ dbNextId \in MedIds
             /\ dbMeds' = Put(dbMeds, dbNextId, MedRow(rec.inp))
             /\ dbNextId' = dbNextId + 1
             /\ procs' = [procs EXCEPT ![self] = [rec EXCEPT !.pc = "insStocks", !.med = dbNextId]]
        ELSE /\ Return(self, [rec EXCEPT !.alert = TRUE])
             /\ UNCHANGED <<dbMeds, dbNextId>>
  /\ UNCHANGED <<dbStocks, dbLogs, meds, stocks, intakes, onlyToday>>

\* stockRows: qty: newMed.initBox || 0 and newMed.initDisp || 0
StockRows(m, inp) ==
  [r \in {<<m, "Box">>, <<m, "Dispensa">>} |->
     IF r[2] = "Box" THEN OrZero(inp.initBox) ELSE OrZero(inp.initDisp)]

InsertRows(st, rows) ==
  [r \in (DOMAIN st) \cup (DOMAIN rows) |-> IF r \in DOMAIN rows THEN rows[r] ELSE st[r]]

\* await sb.from("stocks").insert(stockRows): the result is not looked at;
\* then loadMeds() is called.
addMedStocks(self, ok) ==
  /\ procs[self].op = "addMed" /\ procs[self].pc = "insStocks"
  /\ LET rec == procs[self]
     IN /\ dbStocks' = IF ok THEN InsertRows(dbStocks, StockRows(rec.med, rec.inp)) ELSE dbStocks
        /\ procs' = [procs EXCEPT ![self] = [Called(rec, "insStocks", ok) EXCEPT !.pc = "lm_meds"]]
  /\ UNCHANGED <<dbMeds, dbLogs, dbNextId, meds, stocks, intakes, onlyToday>>

\* ------------------------------------------------- archiveMed, hardDeleteMed
\* archiveMed and hardDeleteMed work on the Med object they are given,
\* whether or not the medication is still in the list.
archiveMed(self, m) ==
  /\ Free(self)
  /\ procs' = [procs EXCEPT ![self] = [Idle EXCEPT !.op = "archive", !.pc = "arc_update", !.med = m]]
  /\ UNCHANGED <<dbMeds, dbStocks, dbLogs, dbNextId, meds, stocks, intakes, onlyToday>>

\* update({archived: true}).eq("id", m.id)
archiveUpdate(self, ok) ==
  /\ procs[self].pc = "arc_update"
  /\ LET rec == procs[self]
     IN /\ dbMeds' = IF ok /\ rec.med \in DOMAIN dbMeds
                     THEN [dbMeds EXCEPT ![rec.med].archived = TRUE] ELSE dbMeds
        /\ procs' = [procs EXCEPT ![self] = [Called(rec, "arc_update", ok) EXCEPT !.pc = "arc_delete"]]
  /\ UNCHANGED <<dbStocks, dbLogs, dbNextId, meds, stocks, intakes, onlyToday>>

\* from("stocks").delete().eq("med_id", m.id)
DeleteStocks(st, m) == Drop(st, {<<m, l>> : l \in Locations})

archiveDelete(self, ok) ==
  /\ procs[self].pc = "arc_delete"
  /\ LET rec == procs[self]
     IN /\ dbStocks' = IF ok THEN DeleteStocks(dbStocks, rec.med) ELSE dbStocks
        /\ procs' = [procs EXCEPT ![self] = [Called(rec, "arc_delete", ok) EXCEPT !.pc = "lm_meds"]]
  /\ UNCHANGED <<dbMeds, dbLogs, dbNextId, meds, stocks, intakes, onlyToday>>

hardDeleteMed(self, m) ==
  /\ Free(self)
  /\ procs' = [procs EXCEPT ![self] = [Idle EXCEPT !.op = "hardDelete", !.pc = "hd_logs", !.med = m]]
  /\ UNCHANGED <<dbMeds, dbStocks, dbLogs, dbNextId, meds, stocks, intakes, onlyToday>>

\* Variant: the delete without its med_id filter.
DeleteLogsOfAll(logs, m) == [k \in DOMAIN logs |-> 0]

\* from("intake_logs").delete().eq("med_id", m.id).eq("family_id", ...)
DeleteLogsOf(logs, m) == [k \in DOMAIN logs |-> IF k[3] = m THEN 0 ELSE logs[k]]

hardDeleteLogs(self, ok) ==
  /\ procs[self].pc = "hd_logs"
  /\ LET rec == procs[self]
     IN /\ dbLogs' = IF ok THEN DeleteLogsOf(dbLogs, rec.med) ELSE dbLogs
        /\ procs' = [procs EXCEPT ![self] = [Called(rec, "hd_logs", ok) EXCEPT !.pc = "hd_stocks"]]
  /\ UNCHANGED <<dbMeds, dbStocks, dbNextId, meds, stocks, intakes, onlyToday>>

hardDeleteStocks(self, ok) ==
  /\ procs[self].pc = "hd_stocks"
  /\ LET rec == procs[self]
     IN /\ dbStocks' = IF ok THEN DeleteStocks(dbStocks, rec.med) ELSE dbStocks
        /\ procs' = [procs EXCEPT ![self] = [Called(rec, "hd_stocks", ok) EXCEPT !.pc = "hd_med"]]
  /\ UNCHANGED <<dbMeds, dbLogs, dbNextId, meds, stocks, intakes, onlyToday>>

\* from("meds").delete().eq("id", m.id); then loadMeds() is called.
hardDeleteRow(self, ok) ==
  /\ procs[self].pc = "hd_med"
  /\ LET rec == procs[self]
     IN /\ dbMeds' = IF ok THEN Drop(dbMeds, {rec.med}) ELSE dbMeds
        /\ procs' = [procs EXCEPT ![self] = [Called(rec, "hd_med", ok) EXCEPT !.pc = "lm_meds"]]
  /\ UNCHANGED <<dbStocks, dbLogs, dbNextId, meds, stocks, intakes, onlyToday>>

\* ---------------------------------------------------------------- saveMed
\* The editor popup holds editing = {id, name, dosage, per_dose, times}: it
\* is opened on a medication of the list and changed field by field, and
\* "Salva" calls saveMed, which sends it whatever the fields hold.  The call
\* keeps the name, per_dose and times of editing in its inp.
EditRec(ed) ==
  [NoInput EXCEPT !.name = ed.name, !.per_dose = ed.per_dose, !.times = ed.times]

\* if (!editing) return; the update is for editing.id, whether or not the
\* medication is still in the list.  The popup stays open meanwhile.
saveMed(self, ed) ==
  /\ Free(self) /\ editing # 0
  /\ procs' = [procs EXCEPT ![self] =
        [Idle EXCEPT !.op = "saveMed", !.pc = "sv_update", !.med = editing, !.inp = EditRec(ed)]]
  /\ UNCHANGED <<dbMeds, dbStocks, dbLogs, dbNextId, meds, stocks, intakes, onlyToday>>

\* update({name, dosage, per_dose, times}).eq("id", editing.id): threshold
\* and archived stay as they are, and no row is changed when the row is gone.
UpdateMed(tbl, m, inp, ok) ==
  IF ok /\ m \in DOMAIN tbl
  THEN [tbl EXCEPT ![m] = [@ EXCEPT !.name = inp.name, !.per_dose = inp.per_dose,
                                    !.times = inp.times]]
  ELSE tbl

\* The backend executes the update; its result is not looked at.
saveMedUpdate(self, ok) ==
  /\ procs[self].op = "saveMed" /\ procs[self].pc = "sv_update"
  /\ LET rec == procs[self]
     IN /\ dbMeds' = UpdateMed(dbMeds, rec.med, rec.inp, ok)
        /\ procs' = [procs EXCEPT ![self] = [Called(rec, "sv_update", ok) EXCEPT !.pc = "sv_close"]]
  /\ UNCHANGED <<dbStocks, dbLogs, dbNextId, meds, stocks, intakes, onlyToday>>

\* The continuation after the await: setEditing(null), whatever the editor
\* holds by then; then loadMeds() is called.
saveMedClose(self) ==
  /\ procs[self].op = "saveMed" /\ procs[self].pc = "sv_close"
  /\ editing' = 0
  /\ procs' = [procs EXCEPT ![self].pc = "lm_meds"]
  /\ UNCHANGED <<dbMeds, dbStocks, dbLogs, dbNextId, meds, stocks, intakes, onlyToday>>

\* ------------------------------------------------------------- the popups
\* "Modifica" on the card of a medication of the list: setEditing({id: m.id,
\* ...}).  "Annulla" and the cross of the popup: setEditing(null).
openEditor(m) == m \in DOMAIN meds /\ editing' = m
closeEditor == editing # 0 /\ editing' = 0

\* "Elimina" on the card: setDeleting(m).  "Annulla" and the cross:
\* setDeleting(null).
openDelete(m) == m \in DOMAIN meds /\ deleting' = m
closeDelete == deleting # 0 /\ deleting' = 0

\* A click with another mouse button on "Elimina" on the card (onAuxClick):
\* no popup; if (confirm(...)) hardDeleteMed(m).  confirm() blocks the page
\* until it is answered; answered with no, the handler does nothing.
auxClickDelete(self, m, yes) ==
  /\ m \in DOMAIN meds
  /\ IF yes THEN hardDeleteMed(self, m) ELSE UNCHANGED pvars

\* "Conferma": const m = deleting; setDeleting(null); then archiveMed(m) or
\* hardDeleteMed(m) as the radio buttons say (deleteKeepHistory).
confirmDelete(self, mode) ==
  /\ deleting # 0
  /\ deleting' = 0
  /\ IF mode = "archive" THEN archiveMed(self, deleting) ELSE hardDeleteMed(self, deleting)

\* ------------------------------------------------------------ observation
\* What the claims compare an operation's result with: the tables and the
\* React state at the moment the operation was called.
Snapshot ==
  [dbMeds |-> dbMeds, dbStocks |-> dbStocks, dbLogs |-> dbLogs,
   meds |-> meds, stocks |-> stocks, intakes |-> intakes]

NoPrev == [op |-> "none", key |-> <<Today, "-", 0>>, next |-> FALSE, clean |-> FALSE,
           boxFound |-> FALSE, box |-> 0, rows |-> 0]

\* The summary of the operation in slot p, which has returned: what it was,
\* whether every backend call of it succeeded, and the on-hand quantity and
\* the rows of its key that it started from.
Summary(p) ==
  [op |-> procs[p].op, key |-> KeyOf(procs[p]), next |-> procs[p].next,
   clean |-> procs[p].errs = {} /\ procs[p].pc = "done",
   boxFound |-> <<procs[p].med, "Box">> \in DOMAIN pre.dbStocks,
   box |-> IF <<procs[p].med, "Box">> \in DOMAIN pre.dbStocks
           THEN pre.dbStocks[<<procs[p].med, "Box">>] ELSE 0,
   rows |-> IF KeyOf(procs[p]) \in Keys THEN pre.dbLogs[KeyOf(procs[p])] ELSE 0]

\* A call records the state it starts from; the steps of a call keep it.
\* Most calls and steps leave the popups as they are.
ObserveCall == pre' = Snapshot /\ prev' = prev /\ nerr' = nerr /\ UNCHANGED cvars
Observe == ObserveCall /\ UNCHANGED mvars
ObserveBoth == pre' = Snapshot /\ prev' = Summary(U1) /\ nerr' = nerr /\ UNCHANGED <<cvars, mvars>>
Failed == \E p \in PIDs : procs'[p].errs # procs[p].errs /\ procs'[p].errs # {}
KeepStep == UNCHANGED <<pre, prev>> /\ nerr' = (IF Failed THEN nerr + 1 ELSE nerr) /\ UNCHANGED cvars
Keep == KeepStep /\ UNCHANGED mvars

\* ------------------------------------------------------------------ inputs
\* The outcomes the backend call p is about to make may have.
Outcomes(p) == IF nerr < MaxErrs THEN BOOLEAN ELSE {TRUE}
NewMedInputs ==
  {[name |-> "A", times |-> t, per_dose |-> p, threshold |-> Threshold0,
    initBox |-> b, initDisp |-> d] :
      t \in {{"Mattina"}}, p \in {1}, b \in {-1, 2}, d \in {0}}
  \cup {[name |-> "", times |-> {"Mattina"}, per_dose |-> 1, threshold |-> Threshold0,
         initBox |-> 0, initDisp |-> 0],
        [name |-> "A", times |-> {}, per_dose |-> 1, threshold |-> Threshold0,
         initBox |-> 0, initDisp |-> 0]}
QtyInputs == {NaN, -1, 0, 1, 2}
\* The fields of the editor when "Salva" is clicked: the medication renamed,
\* with two pills per dose and a second slot.
EditInputs ==
  {[name |-> "B", per_dose |-> 2, times |-> {"Mattina", "Sera"}]}

\* The state of a session that has loaded the catalog cat (id -> per_dose,
\* times, box, pan): what addMed and loadMeds leave behind for such inputs.
CatalogState(cat, today) ==
  /\ dbMeds = [m \in DOMAIN cat |->
                 MedRow([name |-> "A", times |-> cat[m].times, per_dose |-> cat[m].per_dose,
                         threshold |-> Threshold0, initBox |-> 0, initDisp |-> 0])]
  /\ dbStocks = [r \in (DOMAIN cat) \X Locations |->
                   IF r[2] = "Box" THEN cat[r[1]].box ELSE cat[r[1]].pan]
  /\ dbLogs = [k \in Keys |-> 0]
  /\ dbNextId = Cardinality(DOMAIN cat) + 1
  /\ meds = ActiveMeds(dbMeds)
  /\ stocks = StocksMapOf(dbStocks, DOMAIN cat)
  /\ intakes = {}
  /\ onlyToday = today
  /\ procs = [p \in PIDs |-> Idle]
  /\ clock = Clock0
  /\ weekStart = startOfWeekISO(clock)
  /\ badges = EmptyFn
  /\ editing = 0 /\ deleting = 0
  /\ pre = Snapshot
  /\ prev = NoPrev
  /\ nerr = 0

\* A fresh family: no medication yet, the planner in week mode.
Init == CatalogState(EmptyFn, FALSE)

\* ----------------------------------------------------- the steps of a call
ToggleStep ==
  \E p \in PIDs :
    \/ \E ok \in Outcomes(p) : toggleLog(p, ok)
    \/ \E ok \in Outcomes(p) : toggleSelect(p, ok)
    \/ \E ok \in Outcomes(p) : toggleUpdate(p, ok)
    \/ toggleSetStocks(p)

LoadWeekStep ==
  \E p \in Users :
    \/ \E ok \in Outcomes(p) : loadWeekSelect(p, ok)
    \/ loadWeekSet(p)

StockStep ==
  \E p \in Users :
    \/ \E ok \in Outcomes(p) : stockSelectBox(p, ok)
    \/ \E ok \in Outcomes(p) : stockSelectPan(p, ok)
    \/ \E ok \in Outcomes(p) : stockUpdateBox(p, ok)
    \/ \E ok \in Outcomes(p) : stockUpdatePan(p, ok)
    \/ stockSetStocks(p)

LoadMedsStep ==
  \E p \in Users :
    \/ \E ok \in Outcomes(p) : loadMedsSelect(p, ok)
    \/ loadMedsSetMeds(p)
    \/ \E ok \in Outcomes(p) : loadMedsStocks(p, ok)
    \/ loadMedsSetStocks(p)

CatalogStep ==
  \E p \in Users :
    \/ \E ok \in Outcomes(p) : addMedInsert(p, ok)
    \/ \E ok \in Outcomes(p) : addMedStocks(p, ok)
    \/ \E ok \in Outcomes(p) : archiveUpdate(p, ok)
    \/ \E ok \in Outcomes(p) : archiveDelete(p, ok)
    \/ \E ok \in Outcomes(p) : hardDeleteLogs(p, ok)
    \/ \E ok \in Outcomes(p) : hardDeleteStocks(p, ok)
    \/ \E ok \in Outcomes(p) : hardDeleteRow(p, ok)
    \/ \E ok \in Outcomes(p) : saveMedUpdate(p, ok)

SaveMedStep == \E p \in Users : saveMedClose(p)

\* The same steps with every backend call succeeding.
ToggleStepOk ==
  \E p \in PIDs :
    \/ toggleLog(p, TRUE) \/ toggleSelect(p, TRUE) \/ toggleUpdate(p, TRUE)
    \/ toggleSetStocks(p)

LoadWeekStepOk ==
  \E p \in Users : loadWeekSelect(p, TRUE) \/ loadWeekSet(p)

StockStepOk ==
  \E p \in Users :
    \/ stockSelectBox(p, TRUE) \/ stockSelectPan(p, TRUE)
    \/ stockUpdateBox(p, TRUE) \/ stockUpdatePan(p, TRUE)
    \/ stockSetStocks(p)

\* --------------------------------------- the catalog, one call at a time
\* The user starts one operation at a time, when nothing is in flight.  A
\* popup covers the page, so it is opened while no other is open and, while
\* it is open, only its own buttons are clicked.  The popups are opened on
\* the first medication, when nothing is in flight or while archiveMed or
\* hardDeleteMed is: the medication can have left the list, or the table,
\* when "Salva" or "Conferma" is clicked.  The editor is also opened again
\* while saveMed waits for its update or has its setEditing(null) pending,
\* which then closes it.
NoPopup == editing = 0 /\ deleting = 0
Popup == UNCHANGED <<pvars, cvars, pre, prev, nerr>>
Removing == ~Free(U1) /\ procs[U1].op \in {"archive", "hardDelete"}
Saving == procs[U1].pc \in {"sv_update", "sv_close"}
ClickModifica ==
  NoPopup /\ (Quiet \/ Removing \/ Saving) /\ Popup /\ (\E m \in {1} : openEditor(m)) /\ UNCHANGED deleting
ClickElimina ==
  NoPopup /\ (Quiet \/ Removing) /\ Popup /\ (\E m \in {1} : openDelete(m)) /\ UNCHANGED editing
\* The click with another button on "Elimina" on the card of the first
\* medication, and the answer to its confirm().
AuxClickElimina ==
  Quiet /\ NoPopup /\ UNCHANGED mvars
    /\ \E m \in {1}, yes \in BOOLEAN :
         /\ auxClickDelete(U1, m, yes)
         /\ IF yes THEN ObserveCall ELSE UNCHANGED <<cvars, pre, prev, nerr>>
ClickAnnulla ==
  \/ Popup /\ closeEditor /\ UNCHANGED deleting
  \/ Popup /\ closeDelete /\ UNCHANGED editing
ClickConferma ==
  Quiet /\ ObserveCall /\ UNCHANGED editing
    /\ \E mode \in {"archive", "hard"} : confirmDelete(U1, mode)
CallToggle == Quiet /\ NoPopup /\ Observe /\ \E t \in TIMES, m \in MedIds : toggleTaken(U1, Today, t, m, "none")
CallAddMed == Quiet /\ NoPopup /\ Observe /\ \E inp \in NewMedInputs : addMed(U1, inp)
CallSaveMed == Quiet /\ Observe /\ \E ed \in EditInputs : saveMed(U1, ed)

Next ==
  \/ CallToggle
  \/ CallAddMed \/ CallSaveMed
  \/ ClickModifica \/ ClickElimina \/ ClickAnnulla \/ ClickConferma
  \/ AuxClickElimina
  \/ (ToggleStep /\ Keep)
  \/ (LoadMedsStep /\ Keep) \/ (CatalogStep /\ Keep)
  \/ (SaveMedStep /\ KeepStep /\ UNCHANGED deleting)

Spec == Init /\ [][Next]_vars

\* --------------------------------------------- setTaken, one call at a time
\* One medication with two doses a day, the planner in week mode.  setTaken
\* is called with either desired state (force).
ToggleCatalogs ==
  {[m \in {1} |-> [per_dose |-> p, times |-> {"Mattina", "Sera"}, box |-> q, pan |-> 0]] :
     p \in {1, 2}, q \in 0..MaxQty}

InitToggle == \E cat \in ToggleCatalogs : CatalogState(cat, FALSE)

\* force: left out by the checkbox, a boolean from markAllToday.  A call with
\* no force is the call with force = !intakes[k], so the two desired states
\* cover it here.
Forces == {"none", "true", "false"}
Desired == {"true", "false"}
CallSetTaken == Quiet /\ ObserveBoth /\ \E d \in Days, t \in TIMES, m \in MedIds, f \in Desired : toggleTaken(U1, d, t, m, f)

\* The steps of the call: the upsert or the delete of the intake row may
\* return an error, the stock select and update succeed.
ToggleStepLog ==
  \E p \in PIDs :
    \/ \E ok \in Outcomes(p) : toggleLog(p, ok)
    \/ toggleSelect(p, TRUE) \/ toggleUpdate(p, TRUE)
    \/ toggleSetStocks(p)

NextToggle == CallSetTaken \/ (ToggleStepLog /\ Keep)

SpecToggle == InitToggle /\ [][NextToggle]_vars

\* ----------------------------------------- markAllToday, one call at a time
\* Two medications, three doses a day; the planner in "Solo oggi" mode.  The
\* toggleTaken calls of one markAllToday interleave with each other.
BulkCatalogs ==
  {[m \in {1, 2} |-> IF m = 1 THEN [per_dose |-> 1, times |-> {"Mattina", "Sera"}, box |-> q, pan |-> 0]
                     ELSE [per_dose |-> 1, times |-> {"Mattina"}, box |-> 1, pan |-> 0]] :
     q \in 0..MaxQty}

InitBulk == \E cat \in BulkCatalogs : CatalogState(cat, TRUE)

CallCheckbox == Quiet /\ Observe /\ \E t \in TIMES, m \in MedIds : toggleTaken(U1, Today, t, m, "none")
CallMarkAll == Quiet /\ Observe /\ \E c \in BOOLEAN : markAllToday(U1, c)

NextBulk ==
  \/ CallCheckbox \/ CallMarkAll
  \/ (ToggleStep /\ Keep) \/ (markAllAwait(U1) /\ Keep) \/ (LoadWeekStep /\ Keep)

SpecBulk == InitBulk /\ [][NextBulk]_vars

\* --------------------------------------- the stock ledger, one call at a time
\* Two medications; the user works on the stock of the first, the second
\* stands by with one pill in each location.
StockCatalogs ==
  {[m \in {1, 2} |-> IF m = 1 THEN [per_dose |-> 1, times |-> {"Mattina"}, box |-> b, pan |-> d]
                     ELSE [per_dose |-> 1, times |-> {"Mattina"}, box |-> 1, pan |-> 1]] :
     b \in 0..MaxQty, d \in 0..MaxQty}

InitStock == \E cat \in StockCatalogs : CatalogState(cat, FALSE)

CallMove == Quiet /\ Observe /\ \E m \in {1}, q \in QtyInputs : moveFromPantry(U1, m, q)
CallAddPantry == Quiet /\ Observe /\ \E m \in {1}, q \in QtyInputs : addPantry(U1, m, q)
CallSetBox == Quiet /\ Observe /\ \E m \in {1}, q \in QtyInputs : setBoxQty(U1, m, q)
CallSetPantry == Quiet /\ Observe /\ \E m \in {1}, q \in QtyInputs : setPantryQty(U1, m, q)

NextStock ==
  \/ CallMove \/ CallAddPantry \/ CallSetBox \/ CallSetPantry
  \/ (StockStep /\ Keep)

SpecStock == InitStock /\ [][NextStock]_vars

\* ------------------------------------------- the intake tracker, interleaved
\* Two calls of the user in flight at once, each in the lowest free slot, on
\* one medication with one dose a day: checkbox clicks, setTaken with either
\* desired state, and markAllToday, whose buttons stay enabled while another
\* markAllToday and its toggleTaken calls are in flight.  Every backend call
\* succeeds.
ConcCatalogs ==
  {[m \in {1} |-> [per_dose |-> 1, times |-> {"Mattina"}, box |-> q, pan |-> 0]] : q \in {MaxQty}}

InitConc == \E cat \in ConcCatalogs : CatalogState(cat, TRUE)

Lowest(p) == Free(p) /\ \A q \in Users : q[3] < p[3] => ~Free(q)
Unobserved == UNCHANGED <<pre, prev>> /\ nerr' = nerr /\ UNCHANGED <<cvars, mvars>>

StartSetTaken == Unobserved /\ \E p \in Users : Lowest(p) /\ \E t \in TIMES, m \in MedIds, f \in Forces : toggleTaken(p, Today, t, m, f)
StartMarkAll == Unobserved /\ \E p \in Users : Lowest(p) /\ \E c \in BOOLEAN : markAllToday(p, c)

NextConc ==
  \/ StartSetTaken \/ StartMarkAll
  \/ (ToggleStepOk /\ Keep) \/ (\E p \in Users : markAllAwait(p) /\ Keep)
  \/ (LoadWeekStepOk /\ Keep)

SpecConc == InitConc /\ [][NextConc]_vars

\* ------------------------------------ input validation, one call at a time
\* One medication in the catalog; the user creates another one and corrects
\* or restocks the first, with valid and invalid inputs.
ValidCatalogs ==
  {[m \in {1} |-> [per_dose |-> 1, times |-> {"Mattina"}, box |-> b, pan |-> 1]] : b \in 0..MaxQty}

InitValid == \E cat \in ValidCatalogs : CatalogState(cat, FALSE)

AddMedStep ==
  \E p \in Users :
    \/ \E ok \in Outcomes(p) : addMedInsert(p, ok)
    \/ \E ok \in Outcomes(p) : addMedStocks(p, ok)

NextValid ==
  \/ CallAddMed \/ CallAddPantry \/ CallSetBox \/ CallSetPantry
  \/ (AddMedStep /\ Keep) \/ (LoadMedsStep /\ Keep) \/ (StockStep /\ Keep)

SpecValid == InitValid /\ [][NextValid]_vars

\* ------------------------------------- markAllToday, with a fair scheduler
\* Every backend call is answered and every continuation runs: the steps of
\* the calls in flight are weakly fair, the clicks of the user are not.  A
\* click on "annulla tutte" is taken while the on-hand rows have room for its
\* increments under MaxQty, so that no step of it waits on the bound.
Headroom(checked) ==
  checked \/ \A m \in DOMAIN meds :
               <<m, "Box">> \in DOMAIN dbStocks =>
                 dbStocks[<<m, "Box">>]
                   + Cardinality({d \in JobsOf(FALSE) : d[2] = m}) * meds[m].per_dose <= MaxQty

CallMarkAllFair ==
  Quiet /\ Observe /\ \E c \in BOOLEAN : Headroom(c) /\ markAllToday(U1, c)

NextReload ==
  \/ CallMarkAllFair
  \/ (ToggleStep /\ Keep) \/ (markAllAwait(U1) /\ Keep) \/ (LoadWeekStep /\ Keep)

SpecReload ==
  /\ InitBulk /\ [][NextReload]_vars
  /\ WF_vars(ToggleStep /\ Keep)
  /\ WF_vars(markAllAwait(U1) /\ Keep)
  /\ WF_vars(LoadWeekStep /\ Keep)

\* ------------------------------------------------- the planner's calendar
\* The component is mounted at some instant of a week, on a clock whose zone
\* is behind, at or ahead of UTC and has no transition, or one on the Sunday
\* of that week at 01:00 UTC that moves the offset forward or back an hour.
\* The user navigates by weeks and switches "Solo oggi", one click at a time.
MaxWeeks == 1
SundayOneUTC == 6 * 24 + 1
Clocks ==
  {[now |-> 24 * d + h, std |-> o, dstAt |-> IF s = 0 THEN 0 ELSE SundayOneUTC, shift |-> s] :
     d \in {0, 3, 6}, h \in {0, 12, 23}, o \in {0 - 2, 0, 1}, s \in {0 - 1, 0, 1}}

\* useState(startOfWeekISO()), useState(false); nothing in the tables.
InitWeek ==
  /\ clock \in Clocks
  /\ weekStart = startOfWeekISO(clock)
  /\ badges = EmptyFn
  /\ editing = 0 /\ deleting = 0
  /\ dbMeds = EmptyFn /\ dbStocks = EmptyFn /\ dbLogs = [k \in Keys |-> 0] /\ dbNextId = 1
  /\ meds = EmptyFn /\ stocks = EmptyFn /\ intakes = {} /\ onlyToday = FALSE
  /\ procs = [p \in PIDs |-> Idle]
  /\ pre = Snapshot /\ prev = NoPrev /\ nerr = 0

InReach(ws) == ws >= 0 - (7 * MaxWeeks + 6) /\ ws <= 7 * MaxWeeks + 6
Clicked == UNCHANGED <<clock, badges, mvars, pre, prev>> /\ nerr' = nerr
Loading ==
  UNCHANGED <<weekStart, clock, badges, mvars, pre, prev>> /\ nerr' = IF Failed THEN nerr + 1 ELSE nerr

ClickPrev == Quiet /\ weekPrev(U1) /\ InReach(weekStart') /\ Clicked
ClickNext == Quiet /\ weekNext(U1) /\ InReach(weekStart') /\ Clicked
ClickOggi == Quiet /\ weekOggi(U1) /\ InReach(weekStart') /\ Clicked
ClickOnlyToday ==
  Quiet /\ (\E b \in BOOLEAN : setOnlyToday(U1, b)) /\ weekStart' = weekStart /\ Clicked

NextWeek ==
  \/ ClickPrev \/ ClickNext \/ ClickOggi \/ ClickOnlyToday
  \/ (LoadWeekStep /\ Loading)

SpecWeek == InitWeek /\ [][NextWeek]_vars

\* ------------------------------------------------- the stock indicators
\* One medication with any of the thresholds, doses, slot sets and loaded
\* quantities below, or with no entry in the stocks map; the view renders.
StatusMeds ==
  {[name |-> "A", per_dose |-> p, times |-> t, threshold |-> th, archived |-> FALSE] :
     p \in {1, 2}, t \in SUBSET TIMES, th \in {0, 10, 15}}
StatusStocks ==
  {[m \in {1} |-> [box |-> b, dispensa |-> d]] : b \in {0, 5, 7, 12, 20}, d \in {0, 5, 8}}
    \cup {EmptyFn}

InitStatus ==
  /\ clock = Clock0 /\ weekStart = startOfWeekISO(clock) /\ badges = EmptyFn
  /\ editing = 0 /\ deleting = 0
  /\ \E row \in StatusMeds : dbMeds = [m \in {1} |-> row]
  /\ meds = ActiveMeds(dbMeds)
  /\ stocks \in StatusStocks
  /\ dbStocks = [r \in (DOMAIN stocks) \X Locations |->
                   IF r[2] = "Box" THEN stocks[r[1]].box ELSE stocks[r[1]].dispensa]
  /\ dbLogs = [k \in Keys |-> 0] /\ dbNextId = 2
  /\ intakes = {} /\ onlyToday = FALSE
  /\ procs = [p \in PIDs |-> Idle]
  /\ pre = Snapshot /\ prev = NoPrev /\ nerr = 0

Render == renderBadges /\ UNCHANGED <<mvars, pre, prev, nerr>>

SpecStatus == InitStatus /\ [][Render]_vars

\* --------------------------------------------- the stock of one medication,
\* interleaved.  Two calls of the user in flight at once, each in the lowest
\* free slot, all on the one medication of the catalog: the checkbox of its
\* dose, and the four stock functions with quantity 1.  Every backend call
\* succeeds.
LedgerCatalogs ==
  {[m \in {1} |-> [per_dose |-> 1, times |-> {"Mattina"}, box |-> 1, pan |-> 1]]}

InitLedger == \E cat \in LedgerCatalogs : CatalogState(cat, FALSE)

LedgerQtys == {1}
StartCheckbox == Unobserved /\ \E p \in Users : Lowest(p) /\ toggleTaken(p, Today, "Mattina", 1, "none")
StartMove == Unobserved /\ \E p \in Users, q \in LedgerQtys : Lowest(p) /\ moveFromPantry(p, 1, q)
StartAddPantry == Unobserved /\ \E p \in Users, q \in LedgerQtys : Lowest(p) /\ addPantry(p, 1, q)
StartSetBox == Unobserved /\ \E p \in Users, q \in LedgerQtys : Lowest(p) /\ setBoxQty(p, 1, q)
StartSetPantry == Unobserved /\ \E p \in Users, q \in LedgerQtys : Lowest(p) /\ setPantryQty(p, 1, q)

NextLedger ==
  \/ StartCheckbox \/ StartMove \/ StartAddPantry \/ StartSetBox \/ StartSetPantry
  \/ (ToggleStepOk /\ Keep) \/ (StockStepOk /\ Keep)

SpecLedger == InitLedger /\ [][NextLedger]_vars

\* ================================================================== claims
StockRowsOf(st, m) == {l \in Locations : <<m, l>> \in DOMAIN st}
KeysOfMed(m) == {k \in Keys : k[3] = m}
PlannedIn(ms) == {d \in TIMES \X (DOMAIN ms) : d[1] \in ms[d[2]].times}
TodayKey(d) == <<Today, d[1], d[2]>>

\* C1: every stored Stock quantity and every stock quantity held for display
\* is non-negative, whatever was passed to create and the other operations.
\* The code stores a negative initial quantity of create as it is.
C1_StockNeverNegative ==
  /\ \A r \in DOMAIN dbStocks : dbStocks[r] >= 0
  /\ \A m \in DOMAIN stocks : stocks[m].box >= 0 /\ stocks[m].dispensa >= 0

\* C2: under any interleaving of setTaken and setAllToday calls the intake
\* log holds at most one row per (family, day, time slot, medication) key.
C2_OneRowPerKey == \A k \in Keys : dbLogs[k] <= 1

\* Two different calls have both had their upsert for the same key executed.
C2_TwoUpsertsSameKey ==
  \E p, q \in PIDs :
    /\ p # q
    /\ procs[p].op = "toggle" /\ procs[q].op = "toggle"
    /\ procs[p].next /\ procs[q].next
    /\ KeyOf(procs[p]) = KeyOf(procs[q])
    /\ "log" \in procs[p].calls \ procs[p].errs
    /\ "log" \in procs[q].calls \ procs[q].errs
    /\ dbLogs[KeyOf(procs[p])] = 1

\* C3: setTaken(d,s,m,true) run to completion and then run again, with no
\* backend call of either returning an error, leaves exactly one intake row
\* for the key and the on-hand quantity at max(0, max(0, q - p) - p), q being
\* the quantity before the first call and p the pills per dose.
C3_TwiceTaken ==
  procs[U1].op = "toggle" /\ procs[U1].pc = "done" /\ procs[U1].next /\ procs[U1].errs = {}
    /\ prev.op = "toggle" /\ prev.next /\ prev.clean /\ prev.key = KeyOf(procs[U1])
    /\ prev.boxFound

C3_TakenTwice ==
  C3_TwiceTaken =>
    /\ dbLogs[KeyOf(procs[U1])] = 1
    /\ dbStocks[<<procs[U1].med, "Box">>] =
         Max(0, Max(0, prev.box - procs[U1].per_dose) - procs[U1].per_dose)

\* The second run has returned; the first started with no row and with stock
\* that the two decrements exhaust, so that the second one is clamped.
C3_TakenTwiceReached ==
  C3_TwiceTaken /\ prev.rows = 0 /\ prev.box > 0 /\ prev.box < 2 * procs[U1].per_dose

\* C4: setTaken(d,s,m,false) on a key with no intake row, with no backend
\* error, leaves the intake log as it was and increases the on-hand quantity
\* by the pills per dose.
C4_UntakenNoRow ==
  procs[U1].op = "toggle" /\ procs[U1].pc = "done" /\ ~procs[U1].next /\ procs[U1].errs = {}
    /\ pre.dbLogs[KeyOf(procs[U1])] = 0
    /\ <<procs[U1].med, "Box">> \in DOMAIN pre.dbStocks

C4_UntakeWithoutRow ==
  C4_UntakenNoRow =>
    /\ dbLogs = pre.dbLogs
    /\ dbStocks[<<procs[U1].med, "Box">>] =
         pre.dbStocks[<<procs[U1].med, "Box">>] + procs[U1].per_dose

\* Such a call has returned while another slot of the medication has a row.
C4_UntakeWithoutRowReached ==
  C4_UntakenNoRow /\ \E k \in KeysOfMed(procs[U1].med) : pre.dbLogs[k] > 0

\* C5: setAllToday(desiredState) issues a setTaken call for exactly the pairs
\* planned for today whose tracked state differs from desiredState, and when
\* it has returned, with no backend error and from a tracker that agreed
\* with the log, the tracker shows every pair planned for today in
\* desiredState.
C5_Expected ==
  {d \in PlannedIn(pre.meds) : (TodayKey(d) \in pre.intakes) # procs[U1].next}
C5_InSync ==
  \A d \in PlannedIn(pre.meds) : (TodayKey(d) \in pre.intakes) <=> (pre.dbLogs[TodayKey(d)] > 0)

C5_MarkAllToday ==
  procs[U1].op = "markAll" =>
    /\ {j \in Jobs : procs[j].op = "toggle"} = {JobPid(U1, d) : d \in C5_Expected}
    /\ procs[U1].njobs = Cardinality(C5_Expected)
    /\ \A d \in C5_Expected :
         procs[JobPid(U1, d)].next = procs[U1].next /\ procs[JobPid(U1, d)].day = Today
    /\ (procs[U1].pc = "done" /\ procs[U1].errs = {} /\ C5_InSync
          /\ \A j \in Jobs : procs[j].errs = {})
       => \A d \in PlannedIn(pre.meds) : (TodayKey(d) \in intakes) <=> procs[U1].next

\* Three planned pairs, one already taken: two calls, then all three taken.
C5_TwoOfThree ==
  /\ procs[U1].op = "markAll" /\ procs[U1].pc = "done" /\ procs[U1].next
  /\ procs[U1].errs = {} /\ \A j \in Jobs : procs[j].errs = {}
  /\ C5_InSync
  /\ Cardinality(PlannedIn(pre.meds)) = 3
  /\ procs[U1].njobs = 2
  /\ \A d \in PlannedIn(pre.meds) : TodayKey(d) \in intakes

\* C6: transferFromReserve(m, qty) with qty <= 0 leaves both quantities as
\* they were; with qty greater than the reserve quantity r (and no backend
\* error) the reserve becomes 0 and on-hand grows by the full qty.
C6_Moved == procs[U1].op = "move" /\ procs[U1].pc = "done" /\ ~IsNaN(procs[U1].qty)
C6_Overdrawn ==
  /\ C6_Moved /\ procs[U1].errs = {}
  /\ StockRowsOf(pre.dbStocks, procs[U1].med) = Locations
  /\ procs[U1].qty > pre.dbStocks[<<procs[U1].med, "Dispensa">>]

C6_TransferClamp ==
  /\ (C6_Moved /\ procs[U1].qty <= 0) => (dbStocks = pre.dbStocks /\ stocks = pre.stocks)
  /\ C6_Overdrawn =>
       /\ dbStocks[<<procs[U1].med, "Dispensa">>] = 0
       /\ dbStocks[<<procs[U1].med, "Box">>] =
            pre.dbStocks[<<procs[U1].med, "Box">>] + procs[U1].qty

\* A transfer of more than a non-empty reserve held has returned.
C6_TransferClampReached ==
  C6_Overdrawn /\ pre.dbStocks[<<procs[U1].med, "Dispensa">>] > 0

\* C7: when archive(m) has returned, with no backend error, m is not in the
\* active listing, no Stock row of m exists, and every intake row of m that
\* existed before the call still exists.
C7_Archived == procs[U1].op = "archive" /\ procs[U1].pc = "done" /\ procs[U1].errs = {}

C7_ArchiveKeepsHistory ==
  C7_Archived =>
    /\ procs[U1].med \notin DOMAIN meds
    /\ procs[U1].med \in DOMAIN dbMeds => dbMeds[procs[U1].med].archived
    /\ StockRowsOf(dbStocks, procs[U1].med) = {}
    /\ \A k \in KeysOfMed(procs[U1].med) : dbLogs[k] = pre.dbLogs[k]

\* An archived medication that had stock rows and an intake row.
C7_ArchiveKeepsHistoryReached ==
  /\ C7_Archived
  /\ StockRowsOf(pre.dbStocks, procs[U1].med) = Locations
  /\ \E k \in KeysOfMed(procs[U1].med) : pre.dbLogs[k] > 0

\* C8: when hardDelete(m) has returned, with no backend error, no Stock row,
\* no intake row and no Medication row of m exists, and the rows of the other
\* medications are as they were.
C8_Deleted == procs[U1].op = "hardDelete" /\ procs[U1].pc = "done" /\ procs[U1].errs = {}

C8_HardDeleteRemovesAll ==
  C8_Deleted =>
    /\ StockRowsOf(dbStocks, procs[U1].med) = {}
    /\ \A k \in KeysOfMed(procs[U1].med) : dbLogs[k] = 0
    /\ procs[U1].med \notin DOMAIN dbMeds
    /\ \A k \in Keys \ KeysOfMed(procs[U1].med) : dbLogs[k] = pre.dbLogs[k]
    /\ Drop(pre.dbMeds, {procs[U1].med}) = dbMeds
    /\ Drop(pre.dbStocks, {<<procs[U1].med, l>> : l \in Locations}) = dbStocks

\* A deleted medication that had rows in all three tables, beside another
\* medication with stock rows and an intake row.
C8_HardDeleteRemovesAllReached ==
  /\ C8_Deleted
  /\ procs[U1].med \in DOMAIN pre.dbMeds
  /\ StockRowsOf(pre.dbStocks, procs[U1].med) = Locations
  /\ \E k \in KeysOfMed(procs[U1].med) : pre.dbLogs[k] > 0
  /\ \E k \in Keys \ KeysOfMed(procs[U1].med) : dbLogs[k] > 0
  /\ DOMAIN dbStocks # {}

\* C9: whenever no operation is in progress, every non-archived medication
\* has its two Stock rows, also after a backend call returned an error.
\* create and archive do not look at the result of their stocks call or of
\* the archived update.
C9_TwoStockRows ==
  Quiet => \A m \in DOMAIN dbMeds :
             ~dbMeds[m].archived => StockRowsOf(dbStocks, m) = Locations

\* C10: a backend error of create or setTaken is shown by an alert, the
\* operation makes no later backend call, and the tracker and stock state in
\* React keep their values from before the call.  toggleTaken only logs the
\* error of its intake write to the console, keeps the tracker entry it set
\* and goes on to the stock update; addMed does not look at the result of its
\* stocks insert.
C10_ErrorAbortsOperation ==
  \A p \in PIDs :
    (procs[p].op \in {"addMed", "toggle"} /\ procs[p].errs # {}) =>
      /\ procs[p].alert
      /\ "log" \in procs[p].errs => procs[p].calls = {"log"}
      /\ "insMed" \in procs[p].errs => procs[p].calls = {"insMed"}
      /\ intakes = pre.intakes /\ stocks = pre.stocks

\* C11: create with an empty name or an empty slot set, setOnHand and
\* setReserve with a negative or non-numeric quantity, and restockReserve
\* with a quantity <= 0 return without any backend call and leave the tables
\* and the React state as they were.
C11_Invalid ==
  LET rec == procs[U1]
  IN \/ rec.op = "addMed" /\ (rec.inp.name = "" \/ rec.inp.times = {})
     \/ rec.op \in {"setBox", "setPantry"} /\ (IsNaN(rec.qty) \/ rec.qty < 0)
     \/ rec.op = "addPantry" /\ ~IsNaN(rec.qty) /\ rec.qty <= 0

C11_InvalidInputAborts ==
  C11_Invalid =>
    /\ procs[U1].pc = "done" /\ procs[U1].calls = {}
    /\ Snapshot = pre

\* A non-numeric correction has been rejected after valid calls created a
\* second medication and changed the reserve of the first.
C11_InvalidInputAbortsReached ==
  /\ procs[U1].op = "setBox" /\ IsNaN(procs[U1].qty) /\ procs[U1].pc = "done"
  /\ 2 \in DOMAIN dbMeds
  /\ dbStocks[<<1, "Dispensa">>] # 1

\* C12: every markAllToday issues the reload of the intake data, and issues
\* it only when each of its toggleTaken calls has returned from all of its
\* backend calls, whether they succeeded or returned an error.
C12_JobsSettled ==
  \A j \in Jobs :
    /\ Free(j)
    /\ procs[j].op = "toggle" =>
         /\ {"log", "select"} \subseteq procs[j].calls
         /\ ("select" \notin procs[j].errs /\ <<procs[j].med, "Box">> \in DOMAIN dbStocks)
              => "update" \in procs[j].calls

C12_ReloadAfterAllSettle ==
  /\ []((procs[U1].op = "markAll" /\ procs[U1].pc # "await") => C12_JobsSettled)
  /\ (procs[U1].op = "markAll" /\ procs[U1].pc \in {"await", "lw_select"})
       ~> ("lw_select" \in procs[U1].calls)

\* The reload has been issued after two toggleTaken calls, one of which had
\* a backend call return an error.
C12_ReloadAfterAllSettleReached ==
  /\ procs[U1].op = "markAll" /\ "lw_select" \in procs[U1].calls
  /\ procs[U1].njobs >= 2
  /\ \E j \in Jobs : procs[j].op = "toggle" /\ procs[j].errs # {}

IsMonday(d) == d % 7 = 0

\* C13: with "Solo oggi" on, the days shown are exactly {today}, wherever
\* the week navigation has left weekStart.  days filters the seven days from
\* weekStart, so after a move to another week it is empty.
C13_OnlyTodayShowsToday == onlyToday => days = {todayISO(clock)}

\* C14: at every instant and in every time zone, the week start computed is
\* a Monday and the seven days from it contain today.  startOfWeekISO finds
\* the Monday in local time and prints its UTC date.
C14_WeekStartIsMonday ==
  /\ IsMonday(startOfWeekISO(clock))
  /\ todayISO(clock) \in {addDaysISO(clock, startOfWeekISO(clock), i) : i \in 0..6}

\* C15: after any sequence of week navigation clicks weekStart differs from
\* the start of the current week by a multiple of 7 days and is a Monday.
\* addDaysISO adds the days in local time, so a step over a change of the
\* UTC offset moves the date by 6 or 8 days.
C15_AnchorWholeWeeks ==
  /\ (weekStart - startOfWeekISO(clock)) % 7 = 0
  /\ IsMonday(weekStart)

\* C16: with total = on-hand + reserve and weekly need = pills per dose x
\* number of slots x 7, the badge is "Sotto soglia" / red when total <
\* threshold, else "Copertura < 1 settimana" / amber when total < weekly
\* need, else "OK" / green; with threshold 10, one pill per dose and two
\* slots it is red at total 5, amber at 12 and green at 20.
C16_StatusDerivation ==
  \A m \in DOMAIN badges :
    LET total == IF m \in DOMAIN stocks THEN stocks[m].box + stocks[m].dispensa ELSE 0
        slots == Cardinality(meds[m].times)
        need == meds[m].per_dose * slots * 7
        red == badges[m] = [text |-> "Sotto soglia", tone |-> "red"]
        amber == badges[m] = [text |-> "Copertura < 1 settimana", tone |-> "amber"]
        green == badges[m] = [text |-> "OK", tone |-> "green"]
    IN /\ total < meds[m].threshold => red
       /\ (total >= meds[m].threshold /\ total < need) => amber
       /\ (total >= meds[m].threshold /\ total >= need) => green
       /\ (meds[m].threshold = 10 /\ meds[m].per_dose = 1 /\ slots = 2) =>
            /\ total = 5 => red
            /\ total = 12 => amber
            /\ total = 20 => green

\* The badge of the example at total 12: above the threshold, under the
\* weekly need of 14.
C16_StatusDerivationReached ==
  /\ 1 \in DOMAIN badges
  /\ meds[1].threshold = 10 /\ meds[1].per_dose = 1 /\ Cardinality(meds[1].times) = 2
  /\ 1 \in DOMAIN stocks /\ stocks[1].box + stocks[1].dispensa = 12
  /\ badges[1].tone = "amber"

\* C17: when markAllToday(true) starts k > 1 toggleTaken calls for one
\* medication whose on-hand quantity q is at least k x per_dose, and no
\* backend call returns an error, the stored on-hand quantity ends at
\* q - k x per_dose in every interleaving.  Each call reads the row and then
\* writes it, and the calls run concurrently: two reads before either write
\* lose a decrement.
C17_NoLostDecrement ==
  \A m \in DOMAIN pre.meds :
    LET k == Cardinality({j \in Jobs : procs[j].op = "toggle" /\ procs[j].med = m})
        q == pre.dbStocks[<<m, "Box">>]
    IN (/\ procs[U1].op = "markAll" /\ procs[U1].pc = "done" /\ procs[U1].next
        /\ procs[U1].errs = {} /\ \A j \in Jobs : procs[j].errs = {}
        /\ k > 1 /\ q >= k * pre.meds[m].per_dose)
       => dbStocks[<<m, "Box">>] = q - k * pre.meds[m].per_dose

\* C18: whenever no call is in flight and no backend call has returned an
\* error, the on-hand and reserve quantities in the stocks map equal the
\* stored ones, after any interleaving of setTaken and the four stock
\* functions on one medication.  A call writes the row and only later, when
\* its response is handled, the map; the responses of two calls need not be
\* handled in the order of their writes.
C18_LocalEqualsStored ==
  (Quiet /\ nerr = 0) =>
    \A m \in DOMAIN meds :
      /\ stocks[m].box = dbStocks[<<m, "Box">>]
      /\ stocks[m].dispensa = dbStocks[<<m, "Dispensa">>]

\* C19: on a key with no intake row, setTaken(d,s,m,true) and then
\* setTaken(d,s,m,false), one after the other and with no backend error,
\* leave the intake log as it was and the on-hand quantity at its starting
\* value q when q >= per_dose, and at per_dose when q < per_dose.
C19_TakenThenUntaken ==
  /\ procs[U1].op = "toggle" /\ procs[U1].pc = "done" /\ ~procs[U1].next /\ procs[U1].errs = {}
  /\ prev.op = "toggle" /\ prev.next /\ prev.clean /\ prev.key = KeyOf(procs[U1])
  /\ prev.boxFound /\ prev.rows = 0

C19_TakeUntakeRoundTrip ==
  C19_TakenThenUntaken =>
    LET p == procs[U1].per_dose
        k == KeyOf(procs[U1])
    IN /\ dbLogs[k] = 0
       /\ \A x \in Keys \ {k} : dbLogs[x] = pre.dbLogs[x]
       /\ pre.dbLogs[k] = 1
       /\ dbStocks[<<procs[U1].med, "Box">>] = IF prev.box >= p THEN prev.box ELSE p

\* The pair has run from a positive quantity under per_dose, where the
\* decrement is clamped and the increment is not.
C19_TakeUntakeRoundTripReached ==
  C19_TakenThenUntaken /\ prev.box > 0 /\ prev.box < procs[U1].per_dose

\* C20: transferFromReserve(m, qty) with 0 < qty <= reserve, run alone and
\* with no backend error, leaves on-hand + reserve of m as it was and changes
\* no quantity of another medication.
C20_Covered ==
  /\ procs[U1].op = "move" /\ procs[U1].pc = "done" /\ procs[U1].errs = {}
  /\ ~IsNaN(procs[U1].qty) /\ procs[U1].qty > 0
  /\ StockRowsOf(pre.dbStocks, procs[U1].med) = Locations
  /\ procs[U1].qty <= pre.dbStocks[<<procs[U1].med, "Dispensa">>]

C20_TransferKeepsTotal ==
  C20_Covered =>
    LET m == procs[U1].med
    IN /\ dbStocks[<<m, "Box">>] + dbStocks[<<m, "Dispensa">>]
            = pre.dbStocks[<<m, "Box">>] + pre.dbStocks[<<m, "Dispensa">>]
       /\ stocks[m].box + stocks[m].dispensa
            = pre.dbStocks[<<m, "Box">>] + pre.dbStocks[<<m, "Dispensa">>]
       /\ DOMAIN dbStocks = DOMAIN pre.dbStocks
       /\ \A r \in DOMAIN dbStocks : r[1] # m => dbStocks[r] = pre.dbStocks[r]
       /\ \A o \in DOMAIN stocks : o # m => (o \in DOMAIN pre.stocks /\ stocks[o] = pre.stocks[o])

\* A transfer of part of the reserve has returned, beside another medication
\* that has stock.
C20_TransferKeepsTotalReached ==
  /\ C20_Covered
  /\ procs[U1].qty < pre.dbStocks[<<procs[U1].med, "Dispensa">>]
  /\ dbStocks[<<procs[U1].med, "Box">>] = pre.dbStocks[<<procs[U1].med, "Box">>] + procs[U1].qty
  /\ \E r \in DOMAIN dbStocks : r[1] # procs[U1].med /\ dbStocks[r] > 0

====
